---- MODULE Spec2Model ----
(***************************************************************************)
(* Model of the investigation modules of cyberintel-labs/insightsnexus:    *)
(*   saves/examples/domainreport.py  (domain intelligence)                 *)
(*   saves/examples/dnsTransfer.py   (zone transfer)                       *)
(*   saves/examples/hashDetect.py    (hash detection)                      *)
(* Text is modelled as sequences of one-character strings where the code   *)
(* inspects characters (hashDetect.py) and as atomic strings elsewhere.    *)
(* An f-string is modelled as a record of its literal label and the        *)
(* sequence of values interpolated into it.                                *)
(***************************************************************************)
EXTENDS Integers, Sequences, FiniteSets, TLC

VARIABLES
    module,          \* which script this invocation runs
    argv1,           \* sys.argv[1] of the current invocation
    pc,              \* position of the current invocation in its script
    now,             \* wall clock, in ticks of 1/TicksPerSecond second
    stdout,          \* lines printed by the current invocation
    log,             \* what the invoking tool collected from finished invocations
    calls,           \* external operations the current invocation has started
    report_content,  \* domainreport.py: report_content
    resolved_ip,     \* domainreport.py: resolved_ip
    ssl_issuer,      \* domainreport.py: ssl_issuer
    server_header,   \* domainreport.py: server_header
    failed,          \* probes of the current invocation whose except handler ran
    nodes,           \* domainreport.py / hashDetect.py: nodes
    result,          \* dnsTransfer.py: result (<<>> while unbound)
    exc,             \* dnsTransfer.py: the exception caught (<<>> while none)
    hash_input,      \* hashDetect.py: hash_input
    clean_hash,      \* hashDetect.py: clean_hash
    hash_length,     \* hashDetect.py: hash_length
    parts            \* how hashDetect's argument was put together by the caller

vars == <<module, argv1, pc, now, stdout, log, calls, report_content,
          resolved_ip, ssl_issuer, server_header, failed, nodes, result, exc,
          hash_input, clean_hash, hash_length, parts>>

(***************************************************************************)
(* Bounds of the model.                                                    *)
(***************************************************************************)
MaxHashLen == 130
MaxShort == 3
MaxRuns == 2
MaxNow == 3
TicksPerSecond == 2

None == "None"

(***************************************************************************)
(* Text helpers.                                                           *)
(***************************************************************************)
Rep(c, n) == [i \in 1..n |-> c]

DigitChars == <<"0", "1", "2", "3", "4", "5", "6", "7", "8", "9">>

\* str(n) / f"{n}" for a non-negative integer: its decimal digits.
RECURSIVE Digits(_)
Digits(n) ==
    IF n < 10 THEN DigitChars[n + 1]
    ELSE Digits(n \div 10) \o DigitChars[(n % 10) + 1]

\* The string spelled by a sequence of characters.
RECURSIVE Chars2Str(_)
Chars2Str(s) == IF s = <<>> THEN "" ELSE Head(s) \o Chars2Str(Tail(s))

\* One piece appended to a report: the literal text that opens it and the
\* values interpolated after it.
Section(label, values) == [label |-> label, value |-> values]

(***************************************************************************)
(* hashDetect.py                                                           *)
(***************************************************************************)
Whitespace == {" ", "\t"}

UpperToLower ==
    ("M" :> "m") @@ ("D" :> "d") @@ ("S" :> "s") @@ ("H" :> "h") @@
    ("A" :> "a") @@ ("N" :> "n") @@ ("T" :> "t") @@ ("L" :> "l")

LowerChar(c) == IF c \in DOMAIN UpperToLower THEN UpperToLower[c] ELSE c

\* str.lower()
Lower(s) == [i \in 1..Len(s) |-> LowerChar(s[i])]

RECURSIVE LStrip(_)
LStrip(s) ==
    IF s # <<>> /\ Head(s) \in Whitespace THEN LStrip(Tail(s)) ELSE s

RECURSIVE RStrip(_)
RStrip(s) ==
    IF s # <<>> /\ s[Len(s)] \in Whitespace
    THEN RStrip(SubSeq(s, 1, Len(s) - 1))
    ELSE s

\* str.strip()
Strip(s) == RStrip(LStrip(s))

\* The alternation of the first pattern, in the order the regex tries it.
PrefixNames ==
    << <<"m", "d", "5">>,
       <<"s", "h", "a", "1">>,
       <<"s", "h", "a", "2", "5", "6">>,
       <<"s", "h", "a", "5", "1", "2">>,
       <<"n", "t", "l", "m">>,
       <<"l", "m">>,
       <<"b", "c", "r", "y", "p", "t">>,
       <<"s", "c", "r", "y", "p", "t">>,
       <<"p", "b", "k", "d", "f", "2">> >>

StartsWith(s, p) == Len(s) >= Len(p) /\ SubSeq(s, 1, Len(p)) = p

\* [:\s]* at the start of s: the longest run of colons and whitespace.
RECURSIVE DropColonSpace(_)
DropColonSpace(s) ==
    IF s # <<>> /\ (Head(s) = ":" \/ Head(s) \in Whitespace)
    THEN DropColonSpace(Tail(s))
    ELSE s

\* The pattern with [:\s]+ in place of [:\s]*: a name is removed only when a
\* colon or whitespace follows it.
StripPrefixStrict(s) ==
    LET hits == {i \in 1..Len(PrefixNames) :
                    /\ StartsWith(s, PrefixNames[i])
                    /\ Len(s) > Len(PrefixNames[i])
                    /\ s[Len(PrefixNames[i]) + 1] \in {":"} \cup Whitespace}
    IN  IF hits = {} THEN s
        ELSE LET first == CHOOSE i \in hits : \A j \in hits : i <= j
             IN  DropColonSpace(SubSeq(s, Len(PrefixNames[first]) + 1, Len(s)))

\* re.sub(r'^(md5|sha1|...|pbkdf2)[:\s]*', '', s)
StripPrefix(s) ==
    LET hits == {i \in 1..Len(PrefixNames) : StartsWith(s, PrefixNames[i])}
    IN  IF hits = {} THEN s
        ELSE LET first == CHOOSE i \in hits : \A j \in hits : i <= j
             IN  DropColonSpace(SubSeq(s, Len(PrefixNames[first]) + 1, Len(s)))

SeparatorChars == {":", "-", "_"} \cup Whitespace

\* re.sub(r'[:\s\-_]+', '', s)
RemoveSeparators(s) == SelectSeq(s, LAMBDA c : c \notin SeparatorChars)

\* Lines 7-8: clean_hash from hash_input.
Normalize(s) == RemoveSeparators(StripPrefix(Lower(s)))

KnownLengths == {32, 40, 56, 64, 96, 128, 8, 16, 24, 48, 60, 86}

hash_patterns ==
    [n \in KnownLengths |->
        CASE n = 32  -> <<"MD5", "MD4", "MD2", "NTLM", "LM">>
          [] n = 40  -> <<"SHA1", "RIPEMD-160">>
          [] n = 56  -> <<"SHA-224">>
          [] n = 64  -> <<"SHA-256", "SHA3-256", "BLAKE2s-256", "BLAKE2b-256">>
          [] n = 96  -> <<"SHA-384", "SHA3-384", "BLAKE2b-384">>
          [] n = 128 -> <<"SHA-512", "SHA3-512", "BLAKE2b-512", "Whirlpool">>
          [] n = 8   -> <<"CRC32">>
          [] n = 16  -> <<"CRC64">>
          [] n = 24  -> <<"DES">>
          [] n = 48  -> <<"DES-EDE3">>
          [] n = 60  -> <<"bcrypt">>
          [] n = 86  -> <<"scrypt">>]

\* hash_patterns.get(hash_length, [])
PossibleTypes(n) == IF n \in KnownLengths THEN hash_patterns[n] ELSE <<>>

\* The chain without its curated answers: always the first candidate.
MostLikelyFirst(n, possible_types) == "Most Likely: " \o possible_types[1]

\* The chain with a curated answer for 40 that names both candidates.
MostLikelyBoth40(n, possible_types) ==
    CASE n = 32  -> "Most Likely: MD5 or NTLM"
      [] n = 40  -> "Most Likely: SHA1 or RIPEMD-160"
      [] n = 64  -> "Most Likely: SHA-256"
      [] n = 128 -> "Most Likely: SHA-512"
      [] n = 60  -> "Most Likely: bcrypt"
      [] OTHER   -> "Most Likely: " \o possible_types[1]

\* Lines 34-45: the fact appended for a known length.
MostLikely(n, possible_types) ==
    CASE n = 32  -> "Most Likely: MD5 or NTLM"
      [] n = 40  -> "Most Likely: SHA1"
      [] n = 64  -> "Most Likely: SHA-256"
      [] n = 128 -> "Most Likely: SHA-512"
      [] n = 60  -> "Most Likely: bcrypt"
      [] OTHER   -> "Most Likely: " \o possible_types[1]

\* Lines 30-47: nodes after the length-based detection.
DetectNodes(n) ==
    LET possible_types == PossibleTypes(n)
    IN  <<"Hash Length: " \o Digits(n) \o " characters">>
        \o <<IF possible_types # <<>>
             THEN MostLikely(n, possible_types)
             ELSE "Unknown hash type">>

\* Lines 49-52: the envelope printed at the end of the try block.
HashEnvelope(ns, input) ==
    IF ns = <<>>
    THEN [nodes |-> <<"Unable to analyze hash: " \o Chars2Str(input)>>,
          files |-> <<>>]
    ELSE [nodes |-> ns, files |-> <<>>]

(***************************************************************************)
(* Arguments the hash module is invoked with.                              *)
(***************************************************************************)
PrefixForms ==
    {<<>>} \cup {PrefixNames[i] : i \in 1..Len(PrefixNames)}
    \cup {<<"M", "D", "5">>, <<"S", "h", "a", "1">>, <<"N", "T", "L", "M">>,
          <<"L", "M">>}

SepForms == {<<>>, <<":">>, <<" ">>, <<":", " ">>}

BodyChars == {"a", "L", "m", ":", "_", " "}

ShortBodies == UNION {[1..n -> BodyChars] : n \in 0..MaxShort}

LongBodies ==
    {Rep("a", n) : n \in (MaxShort + 1)..MaxHashLen}
    \cup {<<"-">> \o Rep("f", n) \o <<"_", "\t">> : n \in 0..MaxHashLen}

HashParts ==
    [p : PrefixForms, s : SepForms, b : ShortBodies \cup LongBodies]

\* A smaller set for the runs that mix the three modules.
HashPartsSmall ==
    [p : {<<>>, <<"M", "D", "5">>}, s : {<<":">>},
     b : {Rep("a", 32), <<"l", "m", "a">>, <<>>}]

Join(x) == x.p \o x.s \o x.b

(***************************************************************************)
(* What the environment can answer.                                        *)
(***************************************************************************)
Domains == {"example.com", "ns1.test.org"}

\* str(e) of what the probes raise.
SslConnectErrors == {"timed out"}

SslCloseErrors == {"[Errno 5] Input/output error"}

DnsErrors == {"[Errno -2] Name or service not known"}

HttpErrors == {"HTTPSConnectionPool: Max retries exceeded"}

\* getpeercert() results: the issuer is a tuple of RDNs, an RDN a tuple of
\* (key, value) pairs; <<>> stands for a certificate without 'issuer'.
Certs ==
    { [id |-> "le",
       issuer |-> << << <<"countryName", "US">> >>,
                     << <<"organizationName", "Let's Encrypt">> >>,
                     << <<"commonName", "R3">> >> >>],
      [id |-> "selfsigned",
       issuer |-> << << <<"commonName", "localhost">> >> >>],
      [id |-> "blankorg",
       issuer |-> << << <<"organizationName", "">>,
                        <<"commonName", "x">> >>,
                     << <<"organizationName", "Acme">> >> >>],
      [id |-> "noissuer", issuer |-> <<>>] }

IPs == {"93.184.216.34"}

\* response.headers, in the order items() yields them.
HeaderSets ==
    { <<>>,
      << <<"Server", "nginx">> >>,
      << <<"X-Powered-By", "PHP">>, <<"server", "Apache">> >>,
      << <<"Server", "">>, <<"X-Frame-Options", "DENY">> >>,
      << <<"Content-Type", "text/html">> >> }

HeaderLower ==
    ("Server" :> "server") @@ ("server" :> "server") @@
    ("X-Powered-By" :> "x-powered-by") @@
    ("X-Frame-Options" :> "x-frame-options") @@
    ("Content-Type" :> "content-type")

ReportedHeaders ==
    {"server", "x-powered-by", "x-frame-options", "content-security-policy"}

\* subprocess.run results of dig.
DigResults ==
    [returncode : {0, 1, 9},
     stdout : {"", "; <<>> DiG AXFR zone data"},
     stderr : {"", "; Transfer failed."}]

DigErrors == {"Command timed out after 30 seconds", "No such file: 'dig'"}

\* Python truthiness of a string or None.
Truthy(x) == x # None /\ x # ""

\* int(time.time()) / int(datetime.datetime.now().timestamp())
UnixSeconds(t) == t \div TicksPerSecond

\* f"{prefix}_{domain}_{int(time)}.txt"
FileName(prefix, domain, t) ==
    prefix \o "_" \o domain \o "_" \o Digits(UnixSeconds(t)) \o ".txt"

TextFile(name, content) == [name |-> name, content |-> content, type |-> "text"]

(***************************************************************************)
(* domainreport.py                                                         *)
(***************************************************************************)
NoCert == [id |-> "", issuer |-> <<>>]

\* Where the SSL try block can raise: connecting (line 16), the handshake
\* (line 17), closing the socket when the with statements exit (after line
\* 36); "none" is a block that completes.
SslOutcomes ==
    [raise : {"connect", "handshake"}, err : SslConnectErrors, cert : {NoCert}]
    \cup [raise : {"close"}, err : SslCloseErrors, cert : Certs]
    \cup [raise : {"none"}, err : {""}, cert : Certs]

\* Lines 30-34: the inner loop over one RDN.
RECURSIVE ScanSubitems(_, _)
ScanSubitems(item, cur) ==
    IF item = <<>> THEN cur
    ELSE IF Head(item)[1] = "organizationName" THEN Head(item)[2]
    ELSE ScanSubitems(Tail(item), cur)

\* Lines 27-36: the outer loop over the issuer's RDNs.
RECURSIVE ScanItems(_, _)
ScanItems(items, cur) ==
    IF items = <<>> THEN cur
    ELSE LET found == ScanSubitems(Head(items), cur)
         IN  IF Truthy(found) THEN found ELSE ScanItems(Tail(items), found)

\* Lines 19-23.
SslDetails(cert) == Section("SSL Certificate Details:", <<cert.id>>)

\* Lines 14-38: what the SSL try/except leaves behind.
SslBlock(o, report, issuer) ==
    IF o.raise \in {"connect", "handshake"}
    THEN [report_content |->
              Append(report, Section("SSL Certificate Error: ", <<o.err>>)),
          ssl_issuer |-> issuer,
          raised |-> TRUE]
    ELSE LET done == Append(report, SslDetails(o.cert))
             found == ScanItems(o.cert.issuer, issuer)
         IN  IF o.raise = "close"
             THEN [report_content |->
                       Append(done, Section("SSL Certificate Error: ", <<o.err>>)),
                   ssl_issuer |-> found,
                   raised |-> TRUE]
             ELSE [report_content |-> done, ssl_issuer |-> found,
                   raised |-> FALSE]

DnsOutcomes ==
    [raise : {TRUE}, err : DnsErrors, ip : {""}]
    \cup [raise : {FALSE}, err : {""}, ip : IPs]

\* Lines 41-45.
DnsBlock(o, domain, report, ip) ==
    IF o.raise
    THEN [report_content |->
              Append(report, Section("DNS Resolution Error: ", <<o.err>>)),
          resolved_ip |-> ip,
          raised |-> TRUE]
    ELSE [report_content |->
              Append(report, Section("DNS Resolution: ", <<domain, o.ip>>)),
          resolved_ip |-> o.ip,
          raised |-> FALSE]

HttpOutcomes ==
    [raise : {TRUE}, err : HttpErrors, headers : {<<>>}]
    \cup [raise : {FALSE}, err : {""}, headers : HeaderSets]

\* Lines 51-53: the header lines added to the report.
RECURSIVE HeaderLines(_)
HeaderLines(h) ==
    IF h = <<>> THEN <<>>
    ELSE (IF HeaderLower[Head(h)[1]] \in ReportedHeaders
          THEN <<Head(h)[1] \o ": " \o Head(h)[2]>>
          ELSE <<>>) \o HeaderLines(Tail(h))

\* Lines 54-55: server_header after the loop.
RECURSIVE ServerOf(_, _)
ServerOf(h, cur) ==
    IF h = <<>> THEN cur
    ELSE ServerOf(Tail(h),
                  IF HeaderLower[Head(h)[1]] = "server" THEN Head(h)[2] ELSE cur)

\* Lines 48-58.
HttpBlock(o, report, server) ==
    IF o.raise
    THEN [report_content |->
              Append(report, Section("HTTP Analysis Error: ", <<o.err>>)),
          server_header |-> server,
          raised |-> TRUE]
    ELSE [report_content |->
              Append(report,
                     Section("HTTP Headers Analysis:", HeaderLines(o.headers))),
          server_header |-> ServerOf(o.headers, server),
          raised |-> FALSE]

\* A runner that gives up on the remaining probes once one has failed.
NextProbeAbort(probe, raised) ==
    IF raised THEN "nodes"
    ELSE CASE probe = "ssl" -> "dns"
           [] probe = "dns" -> "http"
           [] probe = "http" -> "nodes"

\* The statement reached when the try/except of a probe is left, whether
\* or not its handler ran (lines 39-40, 46-47, 59-60).
NextProbe(probe, raised) ==
    CASE probe = "ssl" -> "dns"
      [] probe = "dns" -> "http"
      [] probe = "http" -> "nodes"

\* Findings listed in the order the probes ran.
KeyFindingsProbeOrder(ip, issuer, server) ==
    (IF Truthy(issuer) THEN <<"SSL Issuer: " \o issuer>> ELSE <<>>)
    \o (IF Truthy(ip) THEN <<"IP Address: " \o ip>> ELSE <<>>)
    \o (IF Truthy(server) THEN <<"Web Server: " \o server>> ELSE <<>>)

\* Lines 61-67.
KeyFindings(ip, issuer, server) ==
    (IF Truthy(ip) THEN <<"IP Address: " \o ip>> ELSE <<>>)
    \o (IF Truthy(issuer) THEN <<"SSL Issuer: " \o issuer>> ELSE <<>>)
    \o (IF Truthy(server) THEN <<"Web Server: " \o server>> ELSE <<>>)

\* Lines 73-80.
DomainEnvelope(ns, domain, report, t) ==
    [nodes |-> ns,
     files |-> <<TextFile(FileName("domain_intel", domain, t), report)>>]

(***************************************************************************)
(* dnsTransfer.py                                                          *)
(***************************************************************************)
ZoneHeader(domain) ==
    << Section("DNS Zone Transfer Report for ", <<domain>>),
       Section("Command: dig @{} AXFR {}", <<domain, domain>>) >>

\* A test of the return code alone.
TransferSucceededCodeOnly(r) == r.returncode = 0

\* Line 8.
TransferSucceeded(r) == r.returncode = 0 /\ r.stdout # ""

\* Lines 10-24.
ZoneSuccessEnvelope(domain, r, t) ==
    [nodes |-> <<>>,
     files |-> <<TextFile(FileName("zone_transfer", domain, t),
                          ZoneHeader(domain)
                          \o <<Section("Results:", <<r.stdout>>)>>)>>]

\* Lines 28-43.
ZoneFailedEnvelope(domain, r, t) ==
    [nodes |-> <<>>,
     files |-> <<TextFile(FileName("zone_transfer_failed", domain, t),
                          ZoneHeader(domain)
                          \o << Section("Status: FAILED", <<>>),
                                Section("Return Code: ", <<Digits(r.returncode)>>),
                                Section("Error Output: ", <<r.stderr>>),
                                Section("Standard Output: ", <<r.stdout>>) >>)>>]

\* Lines 47-60.
ZoneErrorEnvelope(domain, e, t) ==
    [nodes |-> <<>>,
     files |-> <<TextFile(FileName("zone_transfer_error", domain, t),
                          ZoneHeader(domain)
                          \o << Section("Status: ERROR", <<>>),
                                Section("Error: ", <<e>>) >>)>>]

\* A print that is repeated (as a handler that prints after the body did).
PrintLineTwice(out, x) == Append(Append(out, x), x)

\* print(json.dumps(x)): one more line on standard output.
PrintLine(out, x) == Append(out, x)

(***************************************************************************)
(* The invocations.                                                        *)
(***************************************************************************)
Modules == {"domain", "zone", "hash"}

NoParts == [p |-> <<>>, s |-> <<>>, b |-> <<>>]

\* The outcome variant of a finished invocation, as its file name shows it.
Variant ==
    CASE module = "domain" -> "report"
      [] module = "hash" -> "facts"
      [] module = "zone" /\ exc # <<>> -> "error"
      [] module = "zone" /\ result # <<>> /\ TransferSucceeded(result[1]) -> "ok"
      [] OTHER -> "failed"

FileNames(out) ==
    IF out = <<>> THEN <<>>
    ELSE [i \in 1..Len(out[1].files) |-> out[1].files[i].name]

Init ==
    /\ module \in Modules
    /\ parts \in IF module = "hash" THEN HashPartsSmall ELSE {NoParts}
    /\ argv1 \in IF module = "hash" THEN {Join(parts)} ELSE Domains
    /\ pc = "start"
    /\ now = 0
    /\ stdout = <<>>
    /\ log = <<>>
    /\ calls = <<>>
    /\ report_content = <<>>
    /\ resolved_ip = None
    /\ ssl_issuer = None
    /\ server_header = None
    /\ failed = {}
    /\ nodes = <<>>
    /\ result = <<>>
    /\ exc = <<>>
    /\ hash_input = <<>>
    /\ clean_hash = <<>>
    /\ hash_length = 0

\* domainreport.py, lines 2-11.
DomainBegin ==
    /\ module = "domain" /\ pc = "start"
    /\ resolved_ip' = None
    /\ ssl_issuer' = None
    /\ server_header' = None
    /\ report_content' = <<Section("Domain Intelligence Report for ", <<argv1>>)>>
    /\ pc' = "ssl"
    /\ UNCHANGED <<module, argv1, now, stdout, log, calls, failed, nodes,
                   result, exc, hash_input, clean_hash, hash_length, parts>>

\* domainreport.py, lines 13-38.
SslProbe ==
    /\ module = "domain" /\ pc = "ssl"
    /\ \E o \in SslOutcomes :
         LET after == SslBlock(o, report_content, ssl_issuer)
         IN  /\ report_content' = after.report_content
             /\ ssl_issuer' = after.ssl_issuer
             /\ failed' = IF after.raised THEN failed \cup {"ssl"} ELSE failed
    /\ calls' = Append(calls, "ssl")
    /\ pc' = NextProbe("ssl", "ssl" \in failed')
    /\ UNCHANGED <<module, argv1, now, stdout, log, resolved_ip, server_header,
                   nodes, result, exc, hash_input, clean_hash, hash_length,
                   parts>>

\* domainreport.py, lines 40-45.
DnsProbe ==
    /\ module = "domain" /\ pc = "dns"
    /\ \E o \in DnsOutcomes :
         LET after == DnsBlock(o, argv1, report_content, resolved_ip)
         IN  /\ report_content' = after.report_content
             /\ resolved_ip' = after.resolved_ip
             /\ failed' = IF after.raised THEN failed \cup {"dns"} ELSE failed
    /\ calls' = Append(calls, "dns")
    /\ pc' = NextProbe("dns", "dns" \in failed')
    /\ UNCHANGED <<module, argv1, now, stdout, log, ssl_issuer, server_header,
                   nodes, result, exc, hash_input, clean_hash, hash_length,
                   parts>>

\* domainreport.py, lines 47-58.
HttpProbe ==
    /\ module = "domain" /\ pc = "http"
    /\ \E o \in HttpOutcomes :
         LET after == HttpBlock(o, report_content, server_header)
         IN  /\ report_content' = after.report_content
             /\ server_header' = after.server_header
             /\ failed' = IF after.raised THEN failed \cup {"http"} ELSE failed
    /\ calls' = Append(calls, "http")
    /\ pc' = NextProbe("http", "http" \in failed')
    /\ UNCHANGED <<module, argv1, now, stdout, log, resolved_ip, ssl_issuer,
                   nodes, result, exc, hash_input, clean_hash, hash_length,
                   parts>>

\* domainreport.py, lines 60-70.
CreateNodes ==
    /\ module = "domain" /\ pc = "nodes"
    /\ nodes' = KeyFindings(resolved_ip, ssl_issuer, server_header)
    /\ report_content' =
           Append(report_content,
                  Section("Report Generated: ", <<Digits(UnixSeconds(now))>>))
    /\ pc' = "emit"
    /\ UNCHANGED <<module, argv1, now, stdout, log, calls, resolved_ip,
                   ssl_issuer, server_header, failed, result, exc, hash_input,
                   clean_hash, hash_length, parts>>

\* domainreport.py, lines 72-81.
DomainEmit ==
    /\ module = "domain" /\ pc = "emit"
    /\ stdout' = PrintLine(stdout,
                           DomainEnvelope(nodes, argv1, report_content, now))
    /\ pc' = "done"
    /\ UNCHANGED <<module, argv1, now, log, calls, report_content, resolved_ip,
                   ssl_issuer, server_header, failed, nodes, result, exc,
                   hash_input, clean_hash, hash_length, parts>>

\* dnsTransfer.py, line 2.
ZoneBegin ==
    /\ module = "zone" /\ pc = "start"
    /\ pc' = "dig"
    /\ UNCHANGED <<module, argv1, now, stdout, log, calls, report_content,
                   resolved_ip, ssl_issuer, server_header, failed, nodes,
                   result, exc, hash_input, clean_hash, hash_length, parts>>

\* dnsTransfer.py, lines 5-6: dig returns, or subprocess.run raises.
ZoneDig ==
    /\ module = "zone" /\ pc = "dig"
    /\ \/ \E r \in DigResults : result' = <<r>> /\ exc' = exc
       \/ \E e \in DigErrors : exc' = <<e>> /\ result' = result
    /\ calls' = Append(calls, "dig")
    /\ pc' = "branch"
    /\ UNCHANGED <<module, argv1, now, stdout, log, report_content,
                   resolved_ip, ssl_issuer, server_header, failed, nodes,
                   hash_input, clean_hash, hash_length, parts>>

\* dnsTransfer.py, lines 8-25.
ZoneEmitSuccess ==
    /\ module = "zone" /\ pc = "branch"
    /\ exc = <<>> /\ TransferSucceeded(result[1])
    /\ stdout' = PrintLine(stdout, ZoneSuccessEnvelope(argv1, result[1], now))
    /\ pc' = "done"
    /\ UNCHANGED <<module, argv1, now, log, calls, report_content, resolved_ip,
                   ssl_issuer, server_header, failed, nodes, result, exc,
                   hash_input, clean_hash, hash_length, parts>>

\* dnsTransfer.py, lines 26-44.
ZoneEmitFailed ==
    /\ module = "zone" /\ pc = "branch"
    /\ exc = <<>> /\ ~TransferSucceeded(result[1])
    /\ stdout' = PrintLine(stdout, ZoneFailedEnvelope(argv1, result[1], now))
    /\ pc' = "done"
    /\ UNCHANGED <<module, argv1, now, log, calls, report_content, resolved_ip,
                   ssl_issuer, server_header, failed, nodes, result, exc,
                   hash_input, clean_hash, hash_length, parts>>

\* dnsTransfer.py, lines 45-61.
ZoneEmitError ==
    /\ module = "zone" /\ pc = "branch"
    /\ exc # <<>>
    /\ stdout' = PrintLine(stdout, ZoneErrorEnvelope(argv1, exc[1], now))
    /\ pc' = "done"
    /\ UNCHANGED <<module, argv1, now, log, calls, report_content, resolved_ip,
                   ssl_issuer, server_header, failed, nodes, result, exc,
                   hash_input, clean_hash, hash_length, parts>>

\* hashDetect.py, lines 2-3.
HashBegin ==
    /\ module = "hash" /\ pc = "start"
    /\ hash_input' = Strip(argv1)
    /\ nodes' = <<>>
    /\ pc' = "classify"
    /\ UNCHANGED <<module, argv1, now, stdout, log, calls, report_content,
                   resolved_ip, ssl_issuer, server_header, failed, result, exc,
                   clean_hash, hash_length, parts>>

\* hashDetect.py, lines 5-52 (no statement of the try block can raise on a
\* string, so the handler of lines 54-55 is never entered).
HashClassify ==
    /\ module = "hash" /\ pc = "classify"
    /\ clean_hash' = Normalize(hash_input)
    /\ hash_length' = Len(clean_hash')
    /\ nodes' = nodes \o DetectNodes(hash_length')
    /\ stdout' = PrintLine(stdout, HashEnvelope(nodes', hash_input))
    /\ pc' = "done"
    /\ UNCHANGED <<module, argv1, now, log, calls, report_content, resolved_ip,
                   ssl_issuer, server_header, failed, result, exc, hash_input,
                   parts>>

\* Time passes.
Tick ==
    /\ now < MaxNow
    /\ now' = now + 1
    /\ UNCHANGED <<module, argv1, pc, stdout, log, calls, report_content,
                   resolved_ip, ssl_issuer, server_header, failed, nodes,
                   result, exc, hash_input, clean_hash, hash_length, parts>>

\* The invoking tool reads what the finished process printed.
Collect ==
    /\ pc = "done"
    /\ log' = Append(log, [module |-> module,
                           target |-> IF module = "hash"
                                      THEN Chars2Str(argv1) ELSE argv1,
                           variant |-> Variant,
                           lines |-> Len(stdout),
                           names |-> FileNames(stdout)])
    /\ pc' = "collected"
    /\ UNCHANGED <<module, argv1, now, stdout, calls, report_content,
                   resolved_ip, ssl_issuer, server_header, failed, nodes,
                   result, exc, hash_input, clean_hash, hash_length, parts>>

\* The invoking tool starts another process, later than the last one.
Invoke ==
    /\ pc = "collected"
    /\ Len(log) < MaxRuns
    /\ now < MaxNow
    /\ now' = now + 1
    /\ module' \in Modules
    /\ parts' \in IF module' = "hash" THEN HashPartsSmall ELSE {NoParts}
    /\ argv1' \in IF module' = "hash" THEN {Join(parts')} ELSE Domains
    /\ pc' = "start"
    /\ stdout' = <<>>
    /\ calls' = <<>>
    /\ report_content' = <<>>
    /\ resolved_ip' = None
    /\ ssl_issuer' = None
    /\ server_header' = None
    /\ failed' = {}
    /\ nodes' = <<>>
    /\ result' = <<>>
    /\ exc' = <<>>
    /\ hash_input' = <<>>
    /\ clean_hash' = <<>>
    /\ hash_length' = 0
    /\ UNCHANGED log

\* One step of the running script.
Script ==
    \/ DomainBegin \/ SslProbe \/ DnsProbe \/ HttpProbe \/ CreateNodes
    \/ DomainEmit
    \/ ZoneBegin \/ ZoneDig \/ ZoneEmitSuccess \/ ZoneEmitFailed
    \/ ZoneEmitError
    \/ HashBegin \/ HashClassify

Next == Script \/ Tick \/ Collect \/ Invoke

Spec == Init /\ [][Next]_vars

(***************************************************************************)
(* One invocation of the domain-intelligence module, running to its end.   *)
(***************************************************************************)
InitDomain == Init /\ module = "domain"

DomainScript ==
    \/ DomainBegin \/ SslProbe \/ DnsProbe \/ HttpProbe \/ CreateNodes
    \/ DomainEmit

NextDomain == DomainScript \/ Tick

\* A running script always takes its next statement: it is one sequential
\* thread, and every external call is bounded by its timeout (10 s for the
\* sockets and the HTTP request).
SpecDomain == InitDomain /\ [][NextDomain]_vars /\ WF_vars(DomainScript)

(***************************************************************************)
(* The hash module alone, over a wide range of arguments.                  *)
(***************************************************************************)
InitHash ==
    /\ module = "hash"
    /\ parts \in HashParts
    /\ argv1 = Join(parts)
    /\ pc = "start"
    /\ now = 0
    /\ stdout = <<>>
    /\ log = <<>>
    /\ calls = <<>>
    /\ report_content = <<>>
    /\ resolved_ip = None
    /\ ssl_issuer = None
    /\ server_header = None
    /\ failed = {}
    /\ nodes = <<>>
    /\ result = <<>>
    /\ exc = <<>>
    /\ hash_input = <<>>
    /\ clean_hash = <<>>
    /\ hash_length = 0

NextHash == HashBegin \/ HashClassify

SpecHash == InitHash /\ [][NextHash]_vars

(***************************************************************************)
(* Properties.                                                             *)
(***************************************************************************)
Finished == pc \in {"done", "collected"}

Probes == <<"ssl", "dns", "http">>

SuccessLabel ==
    [ssl |-> "SSL Certificate Details:", dns |-> "DNS Resolution: ",
     http |-> "HTTP Headers Analysis:"]

ErrorLabel ==
    [ssl |-> "SSL Certificate Error: ", dns |-> "DNS Resolution Error: ",
     http |-> "HTTP Analysis Error: "]

\* The facts each probe can contribute.
FactsOf ==
    [ssl |-> {"SSL Issuer: Let's Encrypt", "SSL Issuer: Acme"},
     dns |-> {"IP Address: 93.184.216.34"},
     http |-> {"Web Server: nginx", "Web Server: Apache"}]

ProbeOfFact(f) == CHOOSE q \in {"ssl", "dns", "http"} : f \in FactsOf[q]

CountSections(report, labels) ==
    Cardinality({i \in 1..Len(report) : report[i].label \in labels})

SectionValues(report, label) ==
    {report[i].value : i \in {k \in 1..Len(report) : report[k].label = label}}

\* C1: one invocation of any module writes the envelope {nodes, files} to
\* standard output exactly once before it ends, whatever its probes, its
\* subprocess or its classification did: never zero lines, never two.
C1_ExactlyOneEnvelope ==
    /\ Len(stdout) <= 1
    /\ Finished => /\ Len(stdout) = 1
                   /\ DOMAIN stdout[1] = {"nodes", "files"}
    /\ \A i \in 1..Len(log) : log[i].lines = 1

C1_Witness ==
    /\ Len(log) = 1 /\ log[1].module = "zone" /\ log[1].variant = "error"
    /\ module = "domain" /\ pc = "done" /\ failed = {"ssl", "dns", "http"}
    /\ Len(stdout) = 1

PhaseOf(at) ==
    CASE at = "start" -> "START"
      [] at \in {"ssl", "dns", "http"} -> "RUNNING_PROBES"
      [] at \in {"nodes", "emit"} -> "EMITTING"
      [] OTHER -> "DONE"

PhaseMoves ==
    {<<"START", "RUNNING_PROBES">>, <<"RUNNING_PROBES", "RUNNING_PROBES">>,
     <<"RUNNING_PROBES", "EMITTING">>, <<"EMITTING", "EMITTING">>,
     <<"EMITTING", "DONE">>, <<"DONE", "DONE">>}

C2_Step ==
    (module = "domain" /\ pc # "collected" /\ pc' # pc) =>
        /\ <<PhaseOf(pc), PhaseOf(pc')>> \in PhaseMoves
        /\ Len(calls') <= 3
        /\ calls' = SubSeq(Probes, 1, Len(calls'))
        /\ PhaseOf(pc) = "RUNNING_PROBES" => calls' = Append(calls, pc)
        /\ PhaseOf(pc) # "RUNNING_PROBES" => calls' = calls
        /\ PhaseOf(pc') \in {"EMITTING", "DONE"} => calls' = Probes

C2_Started == module = "domain" /\ pc = "start"

C2_Ended == module = "domain" /\ pc = "done" /\ calls = Probes

\* C2: in the domain-intelligence module, whichever probes fail, the SSL,
\* DNS and HTTP probes are each attempted exactly once, in that order, none
\* retried and none skipped, and the invocation goes START ->
\* RUNNING_PROBES -> EMITTING -> DONE and reaches DONE.
C2_ProbesOnceInOrder == [][C2_Step]_vars /\ (C2_Started ~> C2_Ended)

C2_Witness ==
    /\ module = "domain" /\ pc = "done"
    /\ "ssl" \in failed /\ "dns" \in failed /\ "http" \notin failed
    /\ calls = Probes

\* C3: in the domain-intelligence module a probe that fails, at whatever
\* point of its try block, leaves exactly one fragment in the report, its
\* error section and not its success section, and no Fact of that probe is
\* in nodes.
C3_FailedProbeOnlyError ==
    (module = "domain" /\ Finished) =>
        \A q \in {"ssl", "dns", "http"} :
            /\ CountSections(report_content, {SuccessLabel[q], ErrorLabel[q]}) = 1
            /\ q \in failed =>
                 /\ CountSections(report_content, {ErrorLabel[q]}) = 1
                 /\ \A i \in 1..Len(stdout[1].nodes) :
                       stdout[1].nodes[i] \notin FactsOf[q]

\* C4: in the domain-intelligence module, when all three probes fail, the
\* envelope has an empty nodes list and exactly one text FileArtifact whose
\* content holds one error section per probe, in probe order.
C4_AllProbesFail ==
    (module = "domain" /\ Finished /\ failed = {"ssl", "dns", "http"}) =>
        /\ stdout[1].nodes = <<>>
        /\ Len(stdout[1].files) = 1
        /\ stdout[1].files[1].type = "text"
        /\ LET content == stdout[1].files[1].content
               errors == SelectSeq(content,
                             LAMBDA x : x.label \in {ErrorLabel[q] :
                                                     q \in {"ssl", "dns", "http"}})
           IN  [i \in 1..Len(errors) |-> errors[i].label]
               = <<ErrorLabel.ssl, ErrorLabel.dns, ErrorLabel.http>>

ProbeRank == [ssl |-> 1, dns |-> 2, http |-> 3]

ListingRank == [dns |-> 1, ssl |-> 2, http |-> 3]

Ordered(facts, rank) ==
    \A i, j \in 1..Len(facts) :
        i < j => rank[ProbeOfFact(facts[i])] < rank[ProbeOfFact(facts[j])]

\* C5 as claimed: the Facts in nodes are in the order in which the probes
\* that produced them ran (SSL, DNS, HTTP).
C5_ProbeOrder ==
    (module = "domain" /\ Finished) => Ordered(stdout[1].nodes, ProbeRank)

\* C5: the Facts in nodes are in the fixed order of the listing: the DNS
\* probe's address, then the SSL probe's issuer, then the HTTP probe's
\* server, each at most once.
C5_ListingOrder ==
    (module = "domain" /\ Finished) =>
        /\ \A i \in 1..Len(stdout[1].nodes) :
              \E q \in {"ssl", "dns", "http"} : stdout[1].nodes[i] \in FactsOf[q]
        /\ Ordered(stdout[1].nodes, ListingRank)

C5_Witness ==
    /\ module = "domain" /\ pc = "done"
    /\ stdout[1].nodes = <<"IP Address: 93.184.216.34",
                           "SSL Issuer: Let's Encrypt", "Web Server: nginx">>

C6_Second(n) ==
    CASE n = 32  -> "Most Likely: MD5 or NTLM"
      [] n = 40  -> "Most Likely: SHA1"
      [] n = 64  -> "Most Likely: SHA-256"
      [] n = 128 -> "Most Likely: SHA-512"
      [] n = 60  -> "Most Likely: bcrypt"
      [] n = 8   -> "Most Likely: CRC32"
      [] n = 16  -> "Most Likely: CRC64"
      [] n = 24  -> "Most Likely: DES"
      [] n = 48  -> "Most Likely: DES-EDE3"
      [] n = 56  -> "Most Likely: SHA-224"
      [] n = 86  -> "Most Likely: scrypt"
      [] n = 96  -> "Most Likely: SHA-384"
      [] OTHER   -> "Unknown hash type"

\* C6: the hash module's Facts depend on the normalized length alone: the
\* first reports that length, the second is the curated guess for 32, 40,
\* 64, 128 and 60, the first candidate for the other known lengths and
\* "Unknown hash type" for any other length; nodes has two entries and files
\* none.
C6_FactsByLength ==
    (module = "hash" /\ Finished) =>
        /\ hash_length = Len(clean_hash)
        /\ stdout[1].nodes =
               <<"Hash Length: " \o Digits(hash_length) \o " characters",
                 C6_Second(hash_length)>>
        /\ stdout[1].files = <<>>

C6_Witness ==
    /\ module = "hash" /\ pc = "done" /\ hash_length = 128
    /\ parts.p = <<"s", "h", "a", "5", "1", "2">>
    /\ stdout[1].nodes[2] = "Most Likely: SHA-512"

IsName(p) == \E i \in 1..Len(PrefixNames) : Lower(p) = PrefixNames[i]

BeginsWithName(b) ==
    \E i \in 1..Len(PrefixNames) : StartsWith(Lower(Strip(b)), PrefixNames[i])

\* The characters of s that are no colon, hyphen, underscore or whitespace.
NonSeparators(s) == SelectSeq(s, LAMBDA c : c \notin {":", "-", "_", " ", "\t"})

\* What the module reports for the bare body.
BareLength(b) == Len(Normalize(Strip(b)))

\* C7 as claimed: a leading algorithm name is removed only when a colon or
\* whitespace follows it; so the prefixed form and the bare body give the
\* same length and Facts, and a name directly followed by other characters
\* stays in the normalized length.
C7_NameNeedsSeparator ==
    (module = "hash" /\ Finished /\ IsName(parts.p)) =>
        /\ parts.s # <<>> =>
             /\ hash_length = BareLength(parts.b)
             /\ stdout[1].nodes = DetectNodes(BareLength(parts.b))
        /\ (parts.s = <<>> /\ parts.b # <<>> /\ Head(parts.b) \notin {":", " ", "\t"}) =>
             hash_length = Len(NonSeparators(Strip(Join(parts))))

\* C7: a leading algorithm name (any case) is removed whether or not a colon
\* or whitespace follows it, and every colon, hyphen, underscore and
\* whitespace character of the remainder is removed; the prefixed form and
\* the bare body give the same length and Facts whenever the body does not
\* itself begin with an algorithm name.
C7_NameAlwaysRemoved ==
    (module = "hash" /\ Finished /\ IsName(parts.p)) =>
        /\ hash_length = Len(NonSeparators(parts.b))
        /\ ~BeginsWithName(parts.b) =>
             /\ hash_length = BareLength(parts.b)
             /\ stdout[1].nodes = DetectNodes(BareLength(parts.b))

C7_Witness ==
    /\ module = "hash" /\ pc = "done"
    /\ parts.p = <<"M", "D", "5">> /\ parts.s = <<":">>
    /\ parts.b = <<"-">> \o Rep("f", 32) \o <<"_", "\t">>
    /\ hash_length = 32

ZoneNames(prefix) == {prefix \o "_" \o argv1 \o "_" \o Digits(t) \o ".txt" : t \in 0..now}

\* C8: the zone-transfer module ends every outcome of dig with empty nodes
\* and exactly one FileArtifact: zone_transfer_<target>_<ts>.txt holding the
\* raw output if and only if dig returned 0 with non-empty output;
\* zone_transfer_failed_... holding the return code, stderr and stdout for a
\* non-zero return code; zone_transfer_error_... holding the message when
\* running dig raised.
C8_ZoneArtifact ==
    (module = "zone" /\ Finished) =>
        LET env == stdout[1]
            f == env.files[1]
        IN  /\ env.nodes = <<>>
            /\ Len(env.files) = 1
            /\ f.type = "text"
            /\ f.name \in ZoneNames("zone_transfer")
                 <=> (exc = <<>> /\ result[1].returncode = 0 /\ result[1].stdout # "")
            /\ f.name \in ZoneNames("zone_transfer") =>
                 SectionValues(f.content, "Results:") = {<<result[1].stdout>>}
            /\ (exc = <<>> /\ result[1].returncode # 0) =>
                 /\ f.name \in ZoneNames("zone_transfer_failed")
                 /\ SectionValues(f.content, "Return Code: ")
                      = {<<Digits(result[1].returncode)>>}
                 /\ SectionValues(f.content, "Error Output: ") = {<<result[1].stderr>>}
                 /\ SectionValues(f.content, "Standard Output: ") = {<<result[1].stdout>>}
            /\ exc # <<>> =>
                 /\ f.name \in ZoneNames("zone_transfer_error")
                 /\ SectionValues(f.content, "Error: ") = {<<exc[1]>>}

C8_Witness ==
    /\ module = "zone" /\ pc = "done" /\ exc = <<>>
    /\ result[1].returncode = 0 /\ result[1].stdout = ""
    /\ stdout[1].files[1].name \in ZoneNames("zone_transfer_failed")

\* C9: two distinct invocations of the same module against the same target,
\* with the same outcome variant, produce FileArtifacts with different
\* names.
C9_NamesUnique ==
    \A i, j \in 1..Len(log) :
        (/\ i < j
         /\ log[i].module = log[j].module
         /\ log[i].target = log[j].target
         /\ log[i].variant = log[j].variant) =>
            \A a \in 1..Len(log[i].names), b \in 1..Len(log[j].names) :
                log[i].names[a] # log[j].names[b]

FirstCandidate(n) == "Most Likely: " \o hash_patterns[n][1]

\* C10 as claimed: the curated guess differs from the first candidate of the
\* bucket for each of 32, 40, 64, 128 and 60, and only for those.
C10_DivergeAtFive ==
    (module = "hash" /\ Finished /\ hash_length \in KnownLengths) =>
        (stdout[1].nodes[2] # FirstCandidate(hash_length)
            <=> hash_length \in {32, 40, 64, 128, 60})

\* C10: the curated guess differs from the first candidate of the bucket for
\* length 32 only; for 40, 64, 128 and 60, as for every other known length,
\* the Fact is the first candidate.
C10_DivergeAt32 ==
    (module = "hash" /\ Finished /\ hash_length \in KnownLengths) =>
        (stdout[1].nodes[2] # FirstCandidate(hash_length) <=> hash_length = 32)

C10_Witness ==
    /\ module = "hash" /\ pc = "done" /\ hash_length = 40
    /\ stdout[1].nodes[2] = FirstCandidate(40)

====
